---- MODULE Spec2Model ----
(***************************************************************************)
(* The team-builder store (store.tsx): a zustand store holding a node/edge *)
(* graph, an undo/redo history of graph snapshots, and the conversion      *)
(* between the graph and the team configuration.                           *)
(*                                                                         *)
(* JavaScript objects have identity: a component object held by a node is  *)
(* the same object in every history snapshot that holds that node, and an  *)
(* assignment into it is seen through all of them.  The model keeps the    *)
(* objects in `heap`: a node holds a reference to its component, a         *)
(* component holds references to its arrays and sub-components.            *)
(***************************************************************************)
EXTENDS Integers, Sequences, FiniteSets, TLC

VARIABLES nodes, edges, selectedNodeId, history, currentHistoryIndex,
          originalComponent, teamId,   \* the store
          heap,                        \* the objects the store's references lead to
          nextId,                      \* the next id nanoid() gives
          lastOp, thrown, ret,         \* the last operation, what it threw and returned
          steps                        \* operations counted against the bound

vars == <<nodes, edges, selectedNodeId, history, currentHistoryIndex,
          originalComponent, teamId, heap, nextId, lastOp, thrown, ret, steps>>

(***************************************************************************)
(* Program constants and bounds                                            *)
(***************************************************************************)
MAX_HISTORY == 50

\* null / undefined: no object
Null == 0

\* Bounds.
MaxSteps == 4        \* Spec: operations in a run
LongSteps == 3       \* SpecLong: operations once the history is nearly full
LongOver == 2        \* SpecLong: how far currentHistoryIndex may pass MAX_HISTORY

(***************************************************************************)
(* Generic helpers                                                         *)
(***************************************************************************)
Min(a, b) == IF a < b THEN a ELSE b
Max(a, b) == IF a > b THEN a ELSE b

\* Array.prototype.slice(-n)
LastN(s, n) == IF Len(s) <= n THEN s ELSE SubSeq(s, Len(s) - n + 1, Len(s))

\* Array.prototype.findIndex, 1-based; 0 when nothing matches
FindIndex(hits) ==
    IF hits = {} THEN 0 ELSE CHOOSE i \in hits : \A j \in hits : i <= j

(***************************************************************************)
(* Objects                                                                 *)
(***************************************************************************)
NoName == [base |-> "", n |-> 0]

\* A Component<...> with its config.
CompCell(ctype, provider, name) ==
    [kind |-> "comp", ctype |-> ctype, provider |-> provider, name |-> name,
     participants |-> Null, model_client |-> Null,
     termination_condition |-> Null, workbench |-> Null, tools |-> Null]

\* An array of references.
ArrCell(items) == [kind |-> "arr", items |-> items]

\* new object: the reference is the next free address
Alloc(h, cell) == [h |-> Append(h, cell), r |-> Len(h) + 1]

\* The value an object graph has: what lodash isEqual and JSON.stringify see.
RECURSIVE DeepVal(_, _)
DeepVal(h, r) ==
    IF r = Null THEN [kind |-> "null"]
    ELSE LET c == h[r] IN
         IF c.kind = "arr"
         THEN [kind |-> "arr",
               items |-> [i \in 1..Len(c.items) |-> DeepVal(h, c.items[i])]]
         ELSE [kind |-> "comp", ctype |-> c.ctype, provider |-> c.provider,
               name |-> c.name,
               participants |-> DeepVal(h, c.participants),
               model_client |-> DeepVal(h, c.model_client),
               termination_condition |-> DeepVal(h, c.termination_condition),
               workbench |-> DeepVal(h, c.workbench),
               tools |-> DeepVal(h, c.tools)]

DeepNode(h, n) == [id |-> n.id, label |-> n.label, comp |-> DeepVal(h, n.comp)]
DeepNodes(h, ns) == [i \in 1..Len(ns) |-> DeepNode(h, ns[i])]
DeepSnapshot(h, snap) == [nodes |-> DeepNodes(h, snap.nodes), edges |-> snap.edges]

(***************************************************************************)
(* Type guards (types/guards)                                              *)
(***************************************************************************)
isTeamComponent(h, r) == r # Null /\ h[r].kind = "comp" /\ h[r].ctype = "team"
isAgentComponent(h, r) == r # Null /\ h[r].kind = "comp" /\ h[r].ctype = "agent"
isToolComponent(h, r) == r # Null /\ h[r].kind = "comp" /\ h[r].ctype = "tool"
isWorkbenchComponent(h, r) == r # Null /\ h[r].kind = "comp" /\ h[r].ctype = "workbench"
isTerminationComponent(h, r) == r # Null /\ h[r].kind = "comp" /\ h[r].ctype = "termination"
isModelComponent(h, r) == r # Null /\ h[r].kind = "comp" /\ h[r].ctype = "model"
isSelectorTeam(h, r) == h[r].provider = "SelectorGroupChat"
isAssistantAgent(h, r) == h[r].provider = "AssistantAgent"
isWebSurferAgent(h, r) == h[r].provider = "MultimodalWebSurfer"
isStaticWorkbench(h, r) == r # Null /\ h[r].kind = "comp" /\ h[r].provider = "StaticWorkbench"

(***************************************************************************)
(* The store state as one value, so that a handler is a function of it     *)
(***************************************************************************)
St == [nodes |-> nodes, edges |-> edges, selectedNodeId |-> selectedNodeId,
       history |-> history, currentHistoryIndex |-> currentHistoryIndex,
       originalComponent |-> originalComponent, teamId |-> teamId,
       heap |-> heap, nextId |-> nextId, thrown |-> thrown, ret |-> ret]

\* A handler that runs to its end: nothing thrown, nothing returned.
Done(s) == [s EXCEPT !.thrown = "none", !.ret = Null]

\* A handler whose set() callback throws: zustand leaves the state as it was.
Throw(s, err) == [s EXCEPT !.thrown = err, !.ret = Null]

Snapshot(ns, es) == [nodes |-> ns, edges |-> es]

\* history[i] of the code (0-based) is history[i + 1] here.
HistoryAt(s, i) == s.history[i + 1]
HasSnapshot(s, i) == i >= 0 /\ i < Len(s.history)

\* [...state.history.slice(0, state.currentHistoryIndex + 1), snap].slice(-MAX_HISTORY)
RecordedUncapped(s, snap) ==
    SubSeq(s.history, 1, Min(s.currentHistoryIndex + 1, Len(s.history))) \o <<snap>>
RecordedKeepsAll(s, snap) ==
    LastN(s.history \o <<snap>>, MAX_HISTORY)
Recorded(s, snap) ==
    LastN(SubSeq(s.history, 1, Min(s.currentHistoryIndex + 1, Len(s.history)))
              \o <<snap>>, MAX_HISTORY)

\* The tail every recording handler returns: the snapshot appended, the index + 1.
Record(s, ns, es) ==
    [s EXCEPT !.nodes = ns, !.edges = es,
              !.history = Recorded(s, Snapshot(ns, es)),
              !.currentHistoryIndex = s.currentHistoryIndex + 1]

(***************************************************************************)
(* utils: layout (positions and dimensions are not part of the model)      *)
(***************************************************************************)
getLayoutedElements(ns, es) == [nodes |-> ns, edges |-> es]
updateNodeDimensions(ns, es) == [nodes |-> ns, edges |-> es]

\* utils.getUniqueName: the name itself when free, else the first free name_k
getUniqueName(name, existing) ==
    IF name \notin existing THEN name
    ELSE LET k == CHOOSE k \in 1..(Cardinality(existing) + 1) :
                    /\ [base |-> name.base, n |-> k] \notin existing
                    /\ \A j \in 1..(k-1) : [base |-> name.base, n |-> j] \in existing
         IN [base |-> name.base, n |-> k]

(***************************************************************************)
(* addEdge / removeEdge                                                    *)
(***************************************************************************)
addEdge(s, edge) ==
    Done(Record(s, s.nodes, Append(s.edges, edge)))

removeEdge(s, edgeId) ==
    Done(Record(s, s.nodes, SelectSeq(s.edges, LAMBDA e : e.id # edgeId)))

setSelectedNode(s, nodeId) == Done([s EXCEPT !.selectedNodeId = nodeId])

(***************************************************************************)
(* undo / redo                                                             *)
(***************************************************************************)
undoToCurrent(s) ==
    IF s.currentHistoryIndex <= 0 THEN Done(s)
    ELSE IF ~HasSnapshot(s, s.currentHistoryIndex) THEN Throw(s, "TypeError")
    ELSE LET previousState == HistoryAt(s, s.currentHistoryIndex) IN
         Done([s EXCEPT !.nodes = previousState.nodes,
                        !.edges = previousState.edges,
                        !.currentHistoryIndex = s.currentHistoryIndex - 1])
undoClearsSelection(s) ==
    IF s.currentHistoryIndex <= 0 THEN Done(s)
    ELSE IF ~HasSnapshot(s, s.currentHistoryIndex - 1) THEN Throw(s, "TypeError")
    ELSE LET previousState == HistoryAt(s, s.currentHistoryIndex - 1) IN
         Done([s EXCEPT !.nodes = previousState.nodes,
                        !.edges = previousState.edges,
                        !.selectedNodeId = Null,
                        !.currentHistoryIndex = s.currentHistoryIndex - 1])
undo(s) ==
    IF s.currentHistoryIndex <= 0 THEN Done(s)
    ELSE IF ~HasSnapshot(s, s.currentHistoryIndex - 1)
         \* previousState is undefined: previousState.nodes throws
         THEN Throw(s, "TypeError")
    ELSE LET previousState == HistoryAt(s, s.currentHistoryIndex - 1) IN
         Done([s EXCEPT !.nodes = previousState.nodes,
                        !.edges = previousState.edges,
                        !.currentHistoryIndex = s.currentHistoryIndex - 1])

redoIndexOnly(s) ==
    IF s.currentHistoryIndex >= Len(s.history) - 1 THEN Done(s)
    ELSE Done([s EXCEPT !.currentHistoryIndex = s.currentHistoryIndex + 1])
redo(s) ==
    IF s.currentHistoryIndex >= Len(s.history) - 1 THEN Done(s)
    ELSE LET nextState == HistoryAt(s, s.currentHistoryIndex + 1) IN
         Done([s EXCEPT !.nodes = nextState.nodes,
                        !.edges = nextState.edges,
                        !.currentHistoryIndex = s.currentHistoryIndex + 1])

resetHistoryKeepsIndex(s) ==
    Done([s EXCEPT !.history = <<Snapshot(s.nodes, s.edges)>>])
resetHistory(s) ==
    Done([s EXCEPT !.history = <<Snapshot(s.nodes, s.edges)>>,
                   !.currentHistoryIndex = 0])

addToHistory(s) == Done(Record(s, s.nodes, s.edges))

layoutNodes(s) ==
    LET l == getLayoutedElements(s.nodes, s.edges) IN
    Done(Record(s, l.nodes, l.edges))

(***************************************************************************)
(* Inputs: component objects handed to the store by its callers            *)
(***************************************************************************)
Template(ctype, provider, base) ==
    [ctype |-> ctype, provider |-> provider, name |-> [base |-> base, n |-> 0]]

AgentTemplates == {Template("agent", "AssistantAgent", "a"),
                   Template("agent", "UserProxyAgent", "u")}

\* A fresh object for a component given by value: JSON.parse(JSON.stringify(c)),
\* or the object a caller built.  A team carries its participants array, a
\* static workbench its tools array.
NewComponent(h, t) ==
    IF t.ctype = "team"
    THEN LET a == Alloc(h, ArrCell(<<>>)) IN
         Alloc(a.h, [CompCell(t.ctype, t.provider, t.name) EXCEPT !.participants = a.r])
    ELSE IF t.ctype = "workbench" /\ t.provider = "StaticWorkbench"
    THEN LET a == Alloc(h, ArrCell(<<>>)) IN
         Alloc(a.h, [CompCell(t.ctype, t.provider, t.name) EXCEPT !.tools = a.r])
    ELSE Alloc(h, CompCell(t.ctype, t.provider, t.name))

\* A team configuration: a team component whose participants are agents.
TeamConfig(provider, participants) ==
    [provider |-> provider, participants |-> participants]

\* The objects of a team configuration c; r is the team component.
NewTeamConfig(h, c) ==
    LET k == Len(c.participants)
        agents == [i \in 1..k |->
                     CompCell("agent", c.participants[i].provider, c.participants[i].name)]
        arr == ArrCell([i \in 1..k |-> Len(h) + i])
        team == [CompCell("team", c.provider, [base |-> "team", n |-> 0])
                   EXCEPT !.participants = Len(h) + k + 1]
    IN [h |-> h \o agents \o <<arr, team>>, r |-> Len(h) + k + 2]

Node(id, comp) == [id |-> id, label |-> 0, comp |-> comp]
Edge(id, source, target, type) ==
    [id |-> id, source |-> source, target |-> target, type |-> type]

\* utils.convertTeamConfigToGraph: one team node, one agent node per
\* participant, one agent-connection edge from the team to each agent.  The
\* nodes hold the configuration's own component objects.  id0 is the first id
\* of the graph: the ids are new ones, or the ids the conversion gave the same
\* configuration before.
convertTeamConfigToGraph(h, team, id0) ==
    LET parts == h[h[team].participants].items
        k == Len(parts)
    IN [nodes |-> <<Node(id0, team)>> \o [i \in 1..k |-> Node(id0 + i, parts[i])],
        edges |-> [i \in 1..k |-> Edge(id0 + k + i, id0, id0 + i, "agent-connection")],
        nextId |-> id0 + 2 * k + 1]

(***************************************************************************)
(* loadFromJson                                                            *)
(***************************************************************************)
loadFromJsonStaleEdges(s, c, isInitialLoad, tid, id0) ==
    LET cfg == NewTeamConfig(IF isInitialLoad THEN <<>> ELSE s.heap, c)
        g == convertTeamConfigToGraph(cfg.h, cfg.r, id0)
        s1 == [s EXCEPT !.heap = cfg.h,
                        !.nextId = IF isInitialLoad THEN g.nextId
                                   ELSE Max(s.nextId, g.nextId)]
    IN IF isInitialLoad
       THEN Done([s1 EXCEPT !.nodes = g.nodes,
                            !.originalComponent = cfg.r,
                            !.teamId = tid,
                            !.history = <<Snapshot(g.nodes, s.edges)>>,
                            !.currentHistoryIndex = 0,
                            !.selectedNodeId = Null])
       ELSE Done([Record(s1, g.nodes, s.edges)
                    EXCEPT !.teamId = IF tid # Null THEN tid ELSE s.teamId])

loadFromJsonKeepsSelection(s, c, isInitialLoad, tid, id0) ==
    LET cfg == NewTeamConfig(IF isInitialLoad THEN <<>> ELSE s.heap, c)
        g == convertTeamConfigToGraph(cfg.h, cfg.r, id0)
        l == getLayoutedElements(g.nodes, g.edges)
        s1 == [s EXCEPT !.heap = cfg.h,
                        !.nextId = IF isInitialLoad THEN g.nextId
                                   ELSE Max(s.nextId, g.nextId)]
    IN IF isInitialLoad
       THEN Done([s1 EXCEPT !.nodes = l.nodes, !.edges = l.edges,
                            !.originalComponent = cfg.r,
                            !.teamId = tid,
                            !.history = <<Snapshot(l.nodes, l.edges)>>,
                            !.currentHistoryIndex = 0])
       ELSE IF \/ DeepNodes(cfg.h, l.nodes) # DeepNodes(s.heap, s.nodes)
               \/ l.edges # s.edges
       THEN Done([Record(s1, l.nodes, l.edges)
                    EXCEPT !.teamId = IF tid # Null THEN tid ELSE s.teamId])
       ELSE Done(s)

loadFromJsonAlwaysRecords(s, c, isInitialLoad, tid, id0) ==
    LET cfg == NewTeamConfig(IF isInitialLoad THEN <<>> ELSE s.heap, c)
        g == convertTeamConfigToGraph(cfg.h, cfg.r, id0)
        l == getLayoutedElements(g.nodes, g.edges)
        s1 == [s EXCEPT !.heap = cfg.h,
                        !.nextId = IF isInitialLoad THEN g.nextId
                                   ELSE Max(s.nextId, g.nextId)]
    IN IF isInitialLoad
       THEN Done([s1 EXCEPT !.nodes = l.nodes, !.edges = l.edges,
                            !.originalComponent = cfg.r,
                            !.teamId = tid,
                            !.history = <<Snapshot(l.nodes, l.edges)>>,
                            !.currentHistoryIndex = 0,
                            !.selectedNodeId = Null])
       ELSE Done([Record(s1, l.nodes, l.edges)
                    EXCEPT !.teamId = IF tid # Null THEN tid ELSE s.teamId])

\* An initial load replaces every reference the store holds (nodes, edges,
\* history, originalComponent, selectedNodeId): the objects and ids of the graph
\* before it are unreachable.  Addresses and nanoid() ids are opaque, so the
\* model reuses them from the start.
loadFromJson(s, c, isInitialLoad, tid, id0) ==
    LET cfg == NewTeamConfig(IF isInitialLoad THEN <<>> ELSE s.heap, c)
        g == convertTeamConfigToGraph(cfg.h, cfg.r, id0)
        l == getLayoutedElements(g.nodes, g.edges)
        s1 == [s EXCEPT !.heap = cfg.h,
                        !.nextId = IF isInitialLoad THEN g.nextId
                                   ELSE Max(s.nextId, g.nextId)]
    IN IF isInitialLoad
       THEN Done([s1 EXCEPT !.nodes = l.nodes, !.edges = l.edges,
                            !.originalComponent = cfg.r,
                            !.teamId = tid,
                            !.history = <<Snapshot(l.nodes, l.edges)>>,
                            !.currentHistoryIndex = 0,
                            !.selectedNodeId = Null])
       ELSE IF \/ DeepNodes(cfg.h, l.nodes) # DeepNodes(s.heap, s.nodes)
               \/ l.edges # s.edges
       THEN Done([Record(s1, l.nodes, l.edges)
                    EXCEPT !.teamId = IF tid # Null THEN tid ELSE s.teamId])
       ELSE Done(s)

(***************************************************************************)
(* syncToJson / buildTeamComponent                                         *)
(***************************************************************************)
\* The participants array buildTeamComponent computes from the edges.
participantsOfAnyEdge(s, teamNode) ==
    LET participantEdges == SelectSeq(s.edges, LAMBDA e : e.source = teamNode.id)
        agentOf(e) == LET i == FindIndex({k \in 1..Len(s.nodes) : s.nodes[k].id = e.target})
                      IN IF i = 0 \/ ~isAgentComponent(s.heap, s.nodes[i].comp)
                         THEN Null ELSE s.nodes[i].comp
    IN SelectSeq([i \in 1..Len(participantEdges) |-> agentOf(participantEdges[i])],
                 LAMBDA a : a # Null)
participantsOf(s, teamNode) ==
    LET participantEdges ==
            SelectSeq(s.edges, LAMBDA e : e.source = teamNode.id
                                          /\ e.type = "agent-connection")
        agentOf(e) == LET i == FindIndex({k \in 1..Len(s.nodes) : s.nodes[k].id = e.target})
                      IN IF i = 0 \/ ~isAgentComponent(s.heap, s.nodes[i].comp)
                         THEN Null ELSE s.nodes[i].comp
    IN SelectSeq([i \in 1..Len(participantEdges) |-> agentOf(participantEdges[i])],
                 LAMBDA a : a # Null)

\* component = {...teamNode.data.component} shares the node's config object:
\* the assignment to component.config.participants writes into the node's config.
buildTeamComponent(s, teamNode) ==
    IF ~isTeamComponent(s.heap, teamNode.comp) THEN [s EXCEPT !.thrown = "none", !.ret = Null]
    ELSE LET a == Alloc(s.heap, ArrCell(participantsOf(s, teamNode)))
         IN [s EXCEPT !.heap = [a.h EXCEPT ![teamNode.comp].participants = a.r],
                      !.thrown = "none",
                      !.ret = teamNode.comp]

syncToJson(s) ==
    LET teamNodes == SelectSeq(s.nodes, LAMBDA n : s.heap[n.comp].ctype = "team")
    IN IF Len(teamNodes) = 0 THEN [s EXCEPT !.thrown = "none", !.ret = Null]
       ELSE buildTeamComponent(s, teamNodes[1])

(***************************************************************************)
(* addNode                                                                 *)
(***************************************************************************)
normalizeWorkbenches(h, workbench) ==
    IF workbench = Null THEN <<>>
    ELSE IF h[workbench].kind = "arr" THEN h[workbench].items
    ELSE <<workbench>>

\* history gets { nodes: newNodes, edges: newEdges } with the graph as it stands
RecordSame(s, h) == Done(Record([s EXCEPT !.heap = h], s.nodes, s.edges))

\* targetNode.data.component.config.model_client = clonedComponent
addModel(s, h, target, cloned) ==
    RecordSame(s, [h EXCEPT ![target].model_client = cloned])

\* the tool branch: the agent's static workbench gets the tool
addTool(s, h0, target, cloned) ==
    LET \* if (!config.workbench) config.workbench = []
        e == Alloc(h0, ArrCell(<<>>))
        h1 == IF h0[target].workbench = Null
              THEN [e.h EXCEPT ![target].workbench = e.r] ELSE h0
        workbenches == normalizeWorkbenches(h1, h1[target].workbench)
        found == FindIndex({k \in 1..Len(workbenches) : isStaticWorkbench(h1, workbenches[k])})
        \* a new StaticWorkbench with tools: [], in a new workbenches array
        t == Alloc(h1, ArrCell(<<>>))
        w == Alloc(t.h, [CompCell("workbench", "StaticWorkbench",
                                  [base |-> "Static Workbench", n |-> 0])
                           EXCEPT !.tools = t.r])
        a == Alloc(w.h, ArrCell(Append(workbenches, w.r)))
        h2 == IF found = 0 THEN [a.h EXCEPT ![target].workbench = a.r] ELSE h1
        workbench == IF found = 0 THEN w.r ELSE workbenches[found]
        \* if (!staticWorkbenchConfig.tools) staticWorkbenchConfig.tools = []
        n == Alloc(h2, ArrCell(<<>>))
        h3 == IF h2[workbench].tools = Null
              THEN [n.h EXCEPT ![workbench].tools = n.r] ELSE h2
        tools == h3[workbench].tools
        nameOf(r) == IF h3[r].name = NoName THEN [base |-> "tool", n |-> 0]
                     ELSE h3[r].name
        toolName == getUniqueName(nameOf(cloned),
                                  {nameOf(h3[tools].items[i]) : i \in 1..Len(h3[tools].items)})
        h4 == [h3 EXCEPT ![cloned].name = toolName,
                         ![tools].items = Append(@, cloned)]
    IN RecordSame(s, h4)

\* the termination branch: the team node is replaced by a copy
addTermination(s, h, targetNodeId, cloned) ==
    LET step(acc, node) ==
            IF node.id = targetNodeId
            THEN LET c == Alloc(acc.h, [acc.h[node.comp]
                                          EXCEPT !.termination_condition = cloned])
                 IN [h |-> c.h, nodes |-> Append(acc.nodes, [node EXCEPT !.comp = c.r])]
            ELSE [acc EXCEPT !.nodes = Append(@, node)]
        F[i \in 0..Len(s.nodes)] ==
            IF i = 0 THEN [h |-> h, nodes |-> <<>>] ELSE step(F[i - 1], s.nodes[i])
        r == F[Len(s.nodes)]
    IN Done(Record([s EXCEPT !.heap = r.h], r.nodes, s.edges))

\* the workbench branch: the workbench joins the agent's workbenches
addWorkbench(s, h0, target, cloned) ==
    LET e == Alloc(h0, ArrCell(<<>>))
        h1 == IF h0[target].workbench = Null
              THEN [e.h EXCEPT ![target].workbench = e.r] ELSE h0
        wb == h1[target].workbench
        \* a single workbench object is wrapped in a new array
        a == Alloc(h1, ArrCell(<<wb, cloned>>))
        h2 == IF h1[wb].kind = "arr"
              THEN [h1 EXCEPT ![wb].items = Append(@, cloned)]
              ELSE [a.h EXCEPT ![target].workbench = a.r]
    IN RecordSame(s, h2)

\* no branch returned: a team, an agent or a workbench becomes a new node
addNewNode(s, h0, cloned) ==
    LET teamIdx == FindIndex({k \in 1..Len(s.nodes) : isTeamComponent(h0, s.nodes[k].comp)})
        team == s.nodes[teamIdx].comp
        \* teamNode.data.component.config.participants || []
        existingAgents == IF h0[team].participants = Null THEN <<>>
                          ELSE h0[h0[team].participants].items
        rename == isAssistantAgent(h0, cloned)
        h1 == IF rename
              THEN [h0 EXCEPT ![cloned].name =
                      getUniqueName(@, {h0[existingAgents[i]].name :
                                           i \in 1..Len(existingAgents)})]
              ELSE h0
        e == Alloc(h1, ArrCell(<<>>))
        h2 == IF h1[team].participants = Null
              THEN [e.h EXCEPT ![team].participants = e.r] ELSE h1
        h3 == [h2 EXCEPT ![h2[team].participants].items = Append(@, cloned)]
        newNode == Node(s.nextId, cloned)
    IN IF isTeamComponent(h0, cloned) \/ isWorkbenchComponent(h0, cloned)
       THEN Done(Record([s EXCEPT !.heap = h0, !.nextId = s.nextId + 1],
                        Append(s.nodes, newNode), s.edges))
       ELSE IF isAgentComponent(h0, cloned) /\ teamIdx # 0
       THEN IF rename /\ \E i \in 1..Len(existingAgents) : existingAgents[i] = Null
            \* existingAgents.map((p) => p.config.name) on an undefined entry
            THEN Throw(s, "TypeError")
            ELSE Done(Record([s EXCEPT !.heap = h3, !.nextId = s.nextId + 2],
                             Append(s.nodes, newNode),
                             Append(s.edges, Edge(s.nextId + 1, s.nodes[teamIdx].id,
                                                  s.nextId, "agent-connection"))))
       ELSE RecordSame(s, h0)

addNodeWithoutTargetCheck(s, component, targetNodeId) ==
    LET cl == NewComponent(s.heap, component)
    IN addNewNode(s, cl.h, cl.r)
addNode(s, component, targetNodeId) ==
    LET cl == NewComponent(s.heap, component)
        h == cl.h
        cloned == cl.r
        ti == FindIndex({k \in 1..Len(s.nodes) : s.nodes[k].id = targetNodeId})
        target == s.nodes[ti].comp
    IN IF targetNodeId # Null /\ ti = 0 THEN Done(s)
       ELSE IF targetNodeId = Null THEN addNewNode(s, h, cloned)
       ELSE IF /\ isModelComponent(h, cloned)
               /\ \/ isTeamComponent(h, target) /\ isSelectorTeam(h, target)
                  \/ /\ isAgentComponent(h, target)
                     /\ isAssistantAgent(h, target) \/ isWebSurferAgent(h, target)
       THEN addModel(s, h, target, cloned)
       ELSE IF /\ isToolComponent(h, cloned)
               /\ isAgentComponent(h, target) /\ isAssistantAgent(h, target)
       THEN addTool(s, h, target, cloned)
       ELSE IF isTerminationComponent(h, cloned) /\ isTeamComponent(h, target)
       THEN addTermination(s, h, targetNodeId, cloned)
       ELSE IF /\ isWorkbenchComponent(h, cloned)
               /\ isAgentComponent(h, target) /\ isAssistantAgent(h, target)
       THEN addWorkbench(s, h, target, cloned)
       ELSE IF isModelComponent(h, cloned) \/ isToolComponent(h, cloned)
               \/ isTerminationComponent(h, cloned)
       THEN RecordSame(s, h)
       ELSE addNewNode(s, h, cloned)

(***************************************************************************)
(* updateNode                                                              *)
(***************************************************************************)
\* updates: a label (Null: none given) and a component (NoComponent: none given)
NoComponent == Template("", "", "")
Updates(label, component) == [label |-> label, component |-> component]

\* participant === <the updated node's component> ? updates.component : participant
replaceParticipantByName(h, participant, old, new) ==
    IF participant # Null /\ old # Null /\ h[participant].name = h[old].name
    THEN new ELSE participant
replaceParticipant(h, participant, old, new) ==
    IF participant = old THEN new ELSE participant

updateNode(s, nodeId, updates) ==
    LET \* the caller's component object
        u == IF updates.component = NoComponent THEN [h |-> s.heap, r |-> Null]
             ELSE NewComponent(s.heap, updates.component)
        oi == FindIndex({k \in 1..Len(s.nodes) : s.nodes[k].id = nodeId})
        old == IF oi = 0 THEN Null ELSE s.nodes[oi].comp
        isTeamWithUpdatedAgent(node) ==
            /\ isTeamComponent(s.heap, node.comp)
            /\ \E i \in 1..Len(s.edges) :
                  /\ s.edges[i].type = "agent-connection"
                  /\ s.edges[i].target = nodeId
                  /\ s.edges[i].source = node.id
        step(acc, node) ==
            IF node.id # nodeId
            THEN IF isTeamWithUpdatedAgent(node)
                 THEN LET ps == acc.h[acc.h[node.comp].participants].items
                          a == Alloc(acc.h, ArrCell(
                                 [i \in 1..Len(ps) |->
                                     replaceParticipant(acc.h, ps[i], old, u.r)]))
                          c == Alloc(a.h, [a.h[node.comp] EXCEPT !.participants = a.r])
                      IN [h |-> c.h, nodes |-> Append(acc.nodes, [node EXCEPT !.comp = c.r])]
                 ELSE [acc EXCEPT !.nodes = Append(@, node)]
            ELSE [acc EXCEPT !.nodes = Append(@,
                    [node EXCEPT !.comp = IF u.r # Null THEN u.r ELSE node.comp,
                                 !.label = IF updates.label # Null
                                           THEN updates.label ELSE node.label])]
        F[i \in 0..Len(s.nodes)] ==
            IF i = 0 THEN [h |-> u.h, nodes |-> <<>>] ELSE step(F[i - 1], s.nodes[i])
        r == F[Len(s.nodes)]
    IN Done(Record([s EXCEPT !.heap = r.h], r.nodes, s.edges))

(***************************************************************************)
(* removeNode                                                              *)
(***************************************************************************)
\* lodash isEqual on two components
isEqual(h, a, b) == DeepVal(h, a) = DeepVal(h, b)

\* nodesToRemove, updatedNodes (node id -> replacing component), the heap, and
\* whether the recursion ran away
Collected(h) == [h |-> h, remove |-> {}, updated |-> <<>>, overflow |-> FALSE]

\* the participants a team keeps when the agent component is removed
keptParticipantsByIdentity(h, participants, agent) ==
    SelectSeq(participants, LAMBDA p : p # agent)
keptParticipants(h, participants, agent) ==
    SelectSeq(participants, LAMBDA p : ~isEqual(h, p, agent))

\* the targets a removed team cascades to
cascadeSourceOnly(s, id) ==
    LET agentEdges == SelectSeq(s.edges, LAMBDA e : e.source = id
                                                     /\ e.type = "agent-connection")
    IN [i \in 1..Len(agentEdges) |-> agentEdges[i].target]
cascadeNone(s, id) == <<>>
cascadeTargets(s, id) ==
    LET connectedEdges == SelectSeq(s.edges, LAMBDA e : e.source = id \/ e.target = id)
        agentEdges == SelectSeq(connectedEdges, LAMBDA e : e.type = "agent-connection")
    IN [i \in 1..Len(agentEdges) |-> agentEdges[i].target]

RECURSIVE collectNodesToRemove(_, _, _, _)
RECURSIVE collectEach(_, _, _, _)

\* depth counts the nested calls: a chain longer than the node list visits a
\* node twice and so never ends (until the call stack is exhausted).
collectNodesToRemove(s, id, acc, depth) ==
    LET ni == FindIndex({k \in 1..Len(s.nodes) : s.nodes[k].id = id})
        node == s.nodes[ni]
        connectedEdges == SelectSeq(s.edges, LAMBDA e : e.source = id \/ e.target = id)
        ei == FindIndex({k \in 1..Len(connectedEdges) : connectedEdges[k].type = "agent-connection"})
        teamEdge == connectedEdges[ei]
        tn == FindIndex({k \in 1..Len(s.nodes) : s.nodes[k].id = teamEdge.source})
        teamNode == s.nodes[tn]
        kept == keptParticipants(s.heap, s.heap[s.heap[teamNode.comp].participants].items,
                                 node.comp)
        a == Alloc(acc.h, ArrCell(kept))
        c == Alloc(a.h, [a.h[teamNode.comp] EXCEPT !.participants = a.r])
        added == [acc EXCEPT !.remove = @ \cup {id}]
    IN IF acc.overflow THEN acc
       ELSE IF ni = 0 THEN acc
       ELSE IF depth > Len(s.nodes) THEN [acc EXCEPT !.overflow = TRUE]
       ELSE IF isTeamComponent(s.heap, node.comp)
       THEN collectEach(s, cascadeTargets(s, id), added, depth + 1)
       ELSE IF isAgentComponent(s.heap, node.comp) /\ ei # 0 /\ tn # 0
               /\ isTeamComponent(s.heap, teamNode.comp)
       THEN [added EXCEPT !.h = c.h,
                          !.updated = Append(@, [id |-> teamNode.id, comp |-> c.r])]
       ELSE added

collectEach(s, targets, acc, depth) ==
    IF targets = <<>> \/ acc.overflow THEN acc
    ELSE collectEach(s, Tail(targets),
                     collectNodesToRemove(s, Head(targets), acc, depth), depth)

removeNode(s, nodeId) ==
    LET got == collectNodesToRemove(s, nodeId, Collected(s.heap), 1)
        \* updatedNodes.get(node.id): the last set() for that id
        updatedOf(node) ==
            LET hits == SelectSeq(got.updated, LAMBDA u : u.id = node.id)
            IN IF hits = <<>> THEN node ELSE [node EXCEPT !.comp = hits[Len(hits)].comp]
        keptNodes == SelectSeq(s.nodes, LAMBDA n : n.id \notin got.remove)
        newNodes == [i \in 1..Len(keptNodes) |-> updatedOf(keptNodes[i])]
        newEdges == SelectSeq(s.edges, LAMBDA e : e.source \notin got.remove
                                                  /\ e.target \notin got.remove)
    IN IF got.overflow THEN Throw(s, "RangeError")
       ELSE Done(Record([s EXCEPT !.heap = got.h], newNodes, newEdges))

(***************************************************************************)
(* The state machine                                                       *)
(***************************************************************************)
Init ==
    /\ nodes = <<>>
    /\ edges = <<>>
    /\ selectedNodeId = Null
    /\ history = <<>>
    /\ currentHistoryIndex = -1
    /\ originalComponent = Null
    /\ teamId = Null
    /\ heap = <<>>
    /\ nextId = 1
    /\ lastOp = "create"
    /\ thrown = "none"
    /\ ret = Null
    /\ steps = 0

\* The store takes the state a handler returns.
Apply(op, r, cost) ==
    /\ nodes' = r.nodes
    /\ edges' = r.edges
    /\ selectedNodeId' = r.selectedNodeId
    /\ history' = r.history
    /\ currentHistoryIndex' = r.currentHistoryIndex
    /\ originalComponent' = r.originalComponent
    /\ teamId' = r.teamId
    /\ heap' = r.heap
    /\ nextId' = r.nextId
    /\ thrown' = r.thrown
    /\ ret' = r.ret
    /\ lastOp' = op
    /\ steps' = steps + cost

\* Inputs
Configs ==
    {TeamConfig("SelectorGroupChat", <<>>),
     TeamConfig("RoundRobinGroupChat", <<Template("agent", "AssistantAgent", "a")>>)}

\* components dropped on the canvas, and components dropped on a node
Components ==
    AgentTemplates \cup {Template("team", "RoundRobinGroupChat", "team")}
Attachments ==
    {Template("model", "OpenAIChatCompletionClient", "m")}

UpdatesGiven ==
    {Updates(1, NoComponent), Updates(Null, Template("agent", "AssistantAgent", "b"))}

NodeIds(s) == {s.nodes[i].id : i \in 1..Len(s.nodes)}
EdgeIds(s) == {s.edges[i].id : i \in 1..Len(s.edges)}
\* an id no node or edge has
MissingId(s) == s.nextId

FirstNodeId(s) == {s.nodes[i].id : i \in 1..Min(1, Len(s.nodes))}

\* The first id of a converted graph: 1 on an initial load (ids start again);
\* otherwise a new id, or the id the team node of the current graph has.
ConvertedIds(s, isInitialLoad) ==
    IF isInitialLoad THEN {1} ELSE {s.nextId} \cup FirstNodeId(s)

\* One action per store operation, over the inputs given.
DoLoadFromJson(cs, initial, tids, cost) ==
    \E c \in cs, isInitialLoad \in initial, tid \in tids :
        \E id0 \in ConvertedIds(St, isInitialLoad) :
            Apply("loadFromJson", loadFromJson(St, c, isInitialLoad, tid, id0), cost)

DoAddNode(cs, as, targets, cost) ==
    \/ \E c \in cs : Apply("addNode", addNode(St, c, Null), cost)
    \/ \E c \in as, targetNodeId \in targets :
          Apply("addNode", addNode(St, c, targetNodeId), cost)

DoUpdateNode(ids, us, cost) ==
    \E nodeId \in ids, u \in us :
        Apply("updateNode", updateNode(St, nodeId, u), cost)

DoRemoveNode(ids, cost) ==
    \E nodeId \in ids : Apply("removeNode", removeNode(St, nodeId), cost)

\* the caller makes the edge, with an id of its own from nanoid()
DoAddEdge(sources, types, cost) ==
    \E source \in sources, target \in NodeIds(St), type \in types :
        Apply("addEdge", addEdge([St EXCEPT !.nextId = nextId + 1],
                                 Edge(nextId, source, target, type)), cost)

DoRemoveEdge(ids, cost) ==
    \E edgeId \in ids : Apply("removeEdge", removeEdge(St, edgeId), cost)

DoSetSelectedNode(ids, cost) ==
    \E nodeId \in ids :
        Apply("setSelectedNode", setSelectedNode(St, nodeId), cost)

(***************************************************************************)
(* Spec: every operation, on every input, in runs of MaxSteps operations   *)
(***************************************************************************)
CanStep == steps < MaxSteps

LoadFromJson == CanStep /\ DoLoadFromJson(Configs, BOOLEAN, {1}, 1)
AddNode ==
    CanStep /\ DoAddNode(Components, Attachments, {MissingId(St)} \cup NodeIds(St), 1)
UpdateNode == CanStep /\ DoUpdateNode(NodeIds(St), UpdatesGiven, 1)
RemoveNode == CanStep /\ DoRemoveNode({MissingId(St)} \cup NodeIds(St), 1)
AddEdge ==
    /\ CanStep
    /\ \/ DoAddEdge(NodeIds(St), {"agent-connection"}, 1)
       \/ DoAddEdge(FirstNodeId(St), {"model-connection"}, 1)
RemoveEdge == CanStep /\ DoRemoveEdge(EdgeIds(St), 1)
SetSelectedNode == CanStep /\ DoSetSelectedNode({Null} \cup FirstNodeId(St), 1)
SetNodeUserPositioned == CanStep /\ Apply("setNodeUserPositioned", Done(St), 1)
Undo == CanStep /\ Apply("undo", undo(St), 1)
Redo == CanStep /\ Apply("redo", redo(St), 1)
SyncToJson == CanStep /\ Apply("syncToJson", syncToJson(St), 1)
LayoutNodes == CanStep /\ Apply("layoutNodes", layoutNodes(St), 1)
ResetHistory == CanStep /\ Apply("resetHistory", resetHistory(St), 1)
AddToHistory == CanStep /\ Apply("addToHistory", addToHistory(St), 1)

Next ==
    \/ LoadFromJson
    \/ AddNode
    \/ UpdateNode
    \/ RemoveNode
    \/ AddEdge
    \/ RemoveEdge
    \/ SetSelectedNode
    \/ SetNodeUserPositioned
    \/ Undo
    \/ Redo
    \/ SyncToJson
    \/ LayoutNodes
    \/ ResetHistory
    \/ AddToHistory

Spec == Init /\ [][Next]_vars

(***************************************************************************)
(* SpecLong: a loaded team whose history is filled by addToHistory until   *)
(* it is nearly full, then LongSteps operations around MAX_HISTORY         *)
(***************************************************************************)
NearFull == Len(history) >= MAX_HISTORY - 1
CanLongStep ==
    /\ NearFull
    /\ steps < LongSteps
CanLongRecord ==
    /\ CanLongStep
    /\ currentHistoryIndex < MAX_HISTORY + LongOver

LongLoad ==
    /\ lastOp = "create"
    /\ DoLoadFromJson({TeamConfig("RoundRobinGroupChat",
                                  <<Template("agent", "AssistantAgent", "a")>>)},
                      {TRUE}, {1}, 0)
LongFill ==
    /\ lastOp # "create"
    /\ Len(history) < MAX_HISTORY
    /\ currentHistoryIndex = Len(history) - 1
    /\ steps = 0
    /\ Apply("addToHistory", addToHistory(St), 0)
LongLoadFromJson == CanLongRecord /\ DoLoadFromJson(Configs, {FALSE}, {1}, 1)
LongAddNode ==
    CanLongRecord /\ DoAddNode({Template("agent", "UserProxyAgent", "u")},
                               Attachments, FirstNodeId(St), 1)
LongUpdateNode == CanLongRecord /\ DoUpdateNode(NodeIds(St), UpdatesGiven, 1)
LongRemoveNode == CanLongRecord /\ DoRemoveNode(NodeIds(St), 1)
LongAddEdge == CanLongRecord /\ DoAddEdge(FirstNodeId(St), {"agent-connection"}, 1)
LongRemoveEdge == CanLongRecord /\ DoRemoveEdge(EdgeIds(St), 1)
LongLayoutNodes == CanLongRecord /\ Apply("layoutNodes", layoutNodes(St), 1)
LongAddToHistory == CanLongRecord /\ Apply("addToHistory", addToHistory(St), 1)
LongUndo == CanLongStep /\ Apply("undo", undo(St), 1)
LongRedo == CanLongStep /\ Apply("redo", redo(St), 1)

NextLong ==
    \/ LongLoad
    \/ LongFill
    \/ LongLoadFromJson
    \/ LongAddNode
    \/ LongUpdateNode
    \/ LongRemoveNode
    \/ LongAddEdge
    \/ LongRemoveEdge
    \/ LongLayoutNodes
    \/ LongAddToHistory
    \/ LongUndo
    \/ LongRedo

SpecLong == Init /\ [][NextLong]_vars

(***************************************************************************)
(* Properties                                                              *)
(***************************************************************************)
RecordingOps == {"addNode", "updateNode", "removeNode", "addEdge", "removeEdge",
                 "layoutNodes", "addToHistory", "loadFromJson"}

\* This step is a recording operation that recorded a snapshot.
RecordingStep ==
    /\ lastOp' \in RecordingOps
    /\ thrown' = "none"
    /\ currentHistoryIndex' = currentHistoryIndex + 1

\* nodes and edges as values
Graph(s) == [nodes |-> DeepNodes(s.heap, s.nodes), edges |-> s.edges]

HistoryValues(s) == [i \in 1..Len(s.history) |-> DeepSnapshot(s.heap, s.history[i])]

C2_IndexIsPosition ==
    /\ history = <<>> => currentHistoryIndex = -1
    /\ history # <<>> => /\ 0 <= currentHistoryIndex
                         /\ currentHistoryIndex <= Len(history) - 1

\* C3: a recording operation on a full history whose current position is the
\* last one drops the oldest snapshot, and one undo gives back the nodes and
\* edges of before the operation; undo never reads a position without snapshot.
C3_UndoAtCapacity ==
    [][/\ (/\ RecordingStep
           /\ Len(history) = MAX_HISTORY
           /\ currentHistoryIndex = MAX_HISTORY - 1)
          => /\ Len(history') = MAX_HISTORY
             /\ SubSeq(history', 1, MAX_HISTORY - 1) = Tail(history)
             /\ undo(St').thrown = "none"
             /\ Graph(undo(St')) = Graph(St)
       /\ lastOp' = "undo" => thrown' # "TypeError"]_vars

\* C4: history never holds more than MAX_HISTORY snapshots.
C4_HistoryBounded == Len(history) <= MAX_HISTORY

\* a snapshot has been recorded on a full history
C4_Witness ==
    /\ Len(history) = MAX_HISTORY
    /\ currentHistoryIndex >= MAX_HISTORY
    /\ lastOp \in RecordingOps

\* C5: where undo changes the state (currentHistoryIndex > 0), undo followed by
\* redo leaves nodes, edges, history and currentHistoryIndex as they were.
C5_UndoRedoInverse ==
    currentHistoryIndex > 0 =>
        LET r == redo(undo(St)) IN
        /\ undo(St).thrown = "none"
        /\ Graph(r) = Graph(St)
        /\ HistoryValues(r) = HistoryValues(St)
        /\ r.currentHistoryIndex = currentHistoryIndex

\* C6: a recording operation keeps the snapshots up to the current position,
\* discards those after it and appends its own, so that a redo right after it
\* changes nothing.
C6_RecordingDiscardsRedo ==
    [][(/\ RecordingStep
        /\ HasSnapshot(St, currentHistoryIndex)
        /\ currentHistoryIndex + 1 < MAX_HISTORY)
       => /\ Len(history') = currentHistoryIndex + 2
          /\ SubSeq(history', 1, currentHistoryIndex + 1)
               = SubSeq(history, 1, currentHistoryIndex + 1)
          /\ history'[Len(history')] = Snapshot(nodes', edges')
          /\ redo(St').nodes = nodes'
          /\ redo(St').edges = edges'
          /\ redo(St').currentHistoryIndex = currentHistoryIndex']_vars

IdsOf(snap) == {snap.nodes[i].id : i \in 1..Len(snap.nodes)}
                  \cup {snap.edges[i].id : i \in 1..Len(snap.edges)}

\* four operations, the last a recording one, and an id that was given out is
\* in no snapshot any more: the snapshot that held it was undone and discarded
C6_Witness ==
    /\ steps = 4
    /\ lastOp \in RecordingOps
    /\ thrown = "none"
    /\ Len(history) >= 2
    /\ currentHistoryIndex = Len(history) - 1
    /\ \E id \in 1..(nextId - 1) : \A i \in 1..Len(history) : id \notin IdsOf(history[i])

\* The agent components a team node is connected to: for each edge in order,
\* if it is an agent-connection edge from the team to an agent node, that
\* node's component.
RECURSIVE ConnectedAgents(_, _, _)
ConnectedAgents(s, team, i) ==
    IF i > Len(s.edges) THEN <<>>
    ELSE LET e == s.edges[i]
             hit == {j \in 1..Len(s.nodes) :
                        /\ s.nodes[j].id = e.target
                        /\ s.heap[s.nodes[j].comp].ctype = "agent"}
         IN IF e.source = team /\ e.type = "agent-connection" /\ hit # {}
            THEN <<s.nodes[CHOOSE j \in hit : \A k \in hit : j <= k].comp>>
                     \o ConnectedAgents(s, team, i + 1)
            ELSE ConnectedAgents(s, team, i + 1)

ValuesOf(h, refs) == [i \in 1..Len(refs) |-> DeepVal(h, refs[i])]

TeamNodes(s) == {i \in 1..Len(s.nodes) : s.heap[s.nodes[i].comp].ctype = "team"}

\* C7: once a team is loaded, every team node's config.participants is the
\* list of the components of the agent nodes its agent-connection edges lead to.
C7_ParticipantsMirrorEdges ==
    originalComponent # Null =>
        \A i \in TeamNodes(St) :
            LET team == heap[nodes[i].comp] IN
            /\ team.participants # Null
            /\ ValuesOf(heap, heap[team.participants].items)
                 = ValuesOf(heap, ConnectedAgents(St, nodes[i].id, 1))

\* C8: removeNode on a team node removes it and every node an agent-connection
\* edge touching it leads to; after removeNode no edge is left whose source or
\* target was removed.
C8_CascadingDelete ==
    [][\A id \in NodeIds(St) :
          (lastOp' = "removeNode" /\ St' = removeNode(St, id))
          => LET removed == NodeIds(St) \ NodeIds(St')
                 ni == CHOOSE j \in 1..Len(nodes) : nodes[j].id = id
             IN /\ isTeamComponent(heap, nodes[ni].comp)
                     => /\ id \notin NodeIds(St')
                        /\ \A j \in 1..Len(edges) :
                              (/\ edges[j].type = "agent-connection"
                               /\ edges[j].source = id \/ edges[j].target = id)
                              => edges[j].target \notin NodeIds(St')
                /\ \A j \in 1..Len(edges') :
                      /\ edges'[j].source \notin removed
                      /\ edges'[j].target \notin removed]_vars

\* C9: syncToJson returns null when there is no team node; otherwise the
\* component of the first team node, its participants being the connected
\* agents' components in edge order.
C9_SyncToJson ==
    [][lastOp' = "syncToJson"
       => IF TeamNodes(St) = {} THEN ret' = Null
          ELSE LET first == CHOOSE i \in TeamNodes(St) : \A k \in TeamNodes(St) : i <= k
                   expected == ConnectedAgents(St, nodes[first].id, 1)
               IN /\ ret' = nodes[first].comp
                  /\ heap'[ret'].participants # Null
                  /\ heap'[heap'[ret'].participants].items = expected
                  /\ ValuesOf(heap', expected) = ValuesOf(heap, expected)
                  /\ [heap'[ret'] EXCEPT !.participants = Null]
                       = [heap[ret'] EXCEPT !.participants = Null]]_vars

\* syncToJson has returned a team whose edges name an agent and something to skip
C9_Witness ==
    /\ lastOp = "syncToJson"
    /\ ret # Null
    /\ heap[heap[ret].participants].items # <<>>
    /\ \E j \in 1..Len(edges), k \in 1..Len(nodes) :
          /\ edges[j].type = "agent-connection"
          /\ nodes[k].comp = ret
          /\ edges[j].source = nodes[k].id
          /\ edges[j].target = nodes[k].id

Store(s) == [nodes |-> s.nodes, edges |-> s.edges,
             selectedNodeId |-> s.selectedNodeId, history |-> s.history,
             currentHistoryIndex |-> s.currentHistoryIndex,
             originalComponent |-> s.originalComponent, teamId |-> s.teamId]

\* C11: an initial loadFromJson, from any state, leaves history with the single
\* snapshot of the loaded nodes and edges, currentHistoryIndex 0, selectedNodeId
\* null and originalComponent the given configuration; undo and redo right
\* after it change nothing.
C11_InitialLoadResets ==
    [][\A c \in Configs, tid \in {Null, 1} :
          (lastOp' = "loadFromJson" /\ St' = loadFromJson(St, c, TRUE, tid, 1))
          => LET given == NewTeamConfig(<<>>, c) IN
             /\ history' = <<Snapshot(nodes', edges')>>
             /\ currentHistoryIndex' = 0
             /\ selectedNodeId' = Null
             /\ originalComponent' # Null
             /\ DeepVal(heap', originalComponent') = DeepVal(given.h, given.r)
             /\ undo(St') = St'
             /\ redo(St') = St']_vars

\* a load late in a run has left a one-snapshot history and new objects and ids
C11_Witness ==
    /\ lastOp = "loadFromJson"
    /\ steps >= 3
    /\ originalComponent # Null
    /\ history = <<Snapshot(nodes, edges)>>
    /\ currentHistoryIndex = 0
    /\ selectedNodeId = Null
    /\ Len(nodes) = 2
    /\ Len(heap) = Len(nodes) + 1
    /\ nextId = Len(nodes) + Len(edges) + 1

\* C12: a non-initial loadFromJson whose graph equals the current nodes and
\* edges leaves every field of the store as it was; when it differs, nodes and
\* edges are replaced, one snapshot is recorded after the current position, and
\* originalComponent and selectedNodeId stay as they were.
C12_NonInitialLoad ==
    [][\A c \in Configs, tid \in {Null, 1} :
        \A id0 \in ConvertedIds(St, FALSE) :
          (lastOp' = "loadFromJson" /\ St' = loadFromJson(St, c, FALSE, tid, id0))
          => LET cfg == NewTeamConfig(heap, c)
                 g == convertTeamConfigToGraph(cfg.h, cfg.r, id0)
                 loaded == [nodes |-> DeepNodes(cfg.h, g.nodes), edges |-> g.edges]
             IN IF loaded = Graph(St)
                THEN /\ Store(St') = Store(St)
                     /\ HistoryValues(St') = HistoryValues(St)
                ELSE /\ Graph(St') = loaded
                     /\ currentHistoryIndex' = currentHistoryIndex + 1
                     /\ Len(history') = currentHistoryIndex + 2
                     /\ SubSeq(history', 1, currentHistoryIndex + 1)
                          = SubSeq(history, 1, currentHistoryIndex + 1)
                     /\ history'[Len(history')] = Snapshot(nodes', edges')
                     /\ originalComponent' = originalComponent
                     /\ selectedNodeId' = selectedNodeId]_vars

\* a load that left everything alone: an initial load resets the selection and
\* a load that records moves currentHistoryIndex past 0
C12_Witness ==
    /\ lastOp = "loadFromJson"
    /\ originalComponent # Null
    /\ selectedNodeId # Null
    /\ currentHistoryIndex = 0
    /\ Len(history) = 1

\* C13: removeNode terminates: it never runs until the call stack is exhausted.
C13_RemoveNodeTerminates ==
    lastOp = "removeNode" => thrown # "RangeError"

\* C14: after an addNode that recorded a snapshot on a store whose history holds
\* the current state and fewer than MAX_HISTORY snapshots, undo gives back the
\* nodes with every component's configuration (model_client, workbench, tools,
\* participants) as it was before the addNode, and the edges.
C14_UndoRevertsAddNode ==
    [][(/\ lastOp' = "addNode"
        /\ thrown' = "none"
        /\ currentHistoryIndex' = currentHistoryIndex + 1
        /\ HasSnapshot(St, currentHistoryIndex)
        /\ Len(history) < MAX_HISTORY)
       => /\ undo(St').thrown = "none"
          /\ Graph(undo(St')) = Graph(St)]_vars

NodeOf(s, id) == s.nodes[CHOOSE j \in 1..Len(s.nodes) : s.nodes[j].id = id]
ParticipantsOf(s, teamNodeId) ==
    s.heap[s.heap[NodeOf(s, teamNodeId).comp].participants].items

\* C15: removeNode on an agent node leaves in every team's participants each
\* entry that is the component of an agent node staying in the graph.
C15_RemoveAgentKeepsOthers ==
    [][\A id \in NodeIds(St) :
          (/\ lastOp' = "removeNode"
           /\ St' = removeNode(St, id)
           /\ thrown' = "none"
           /\ isAgentComponent(heap, NodeOf(St, id).comp))
          => \A t \in TeamNodes(St) :
                LET before == ParticipantsOf(St, nodes[t].id)
                    after == ParticipantsOf(St', nodes[t].id)
                IN \A i \in 1..Len(before) :
                      (\E j \in 1..Len(nodes') : nodes'[j].comp = before[i])
                      => \E k \in 1..Len(after) : after[k] = before[i]]_vars

\* C16: updateNode on an agent node keeps every team's participants well
\* formed: no entry becomes empty; without a component in the updates the
\* participants keep their values; with one, the entry that is the agent's
\* component in a team connected to it becomes the component given and the
\* other entries stay.
C16_UpdateKeepsParticipants ==
    [][\A id \in NodeIds(St), u \in UpdatesGiven :
          (/\ lastOp' = "updateNode"
           /\ St' = updateNode(St, id, u)
           /\ isAgentComponent(heap, NodeOf(St, id).comp))
          => \A t \in TeamNodes(St) :
                LET before == ParticipantsOf(St, nodes[t].id)
                    after == ParticipantsOf(St', nodes[t].id)
                    connected == \E j \in 1..Len(edges) :
                                    /\ edges[j].type = "agent-connection"
                                    /\ edges[j].source = nodes[t].id
                                    /\ edges[j].target = id
                IN /\ Len(after) = Len(before)
                   /\ \A k \in 1..Len(before) :
                         before[k] # Null => after[k] # Null
                   /\ u.component = NoComponent
                         => ValuesOf(heap', after) = ValuesOf(heap, before)
                   /\ u.component # NoComponent
                         => \A k \in 1..Len(before) :
                               IF connected /\ before[k] = NodeOf(St, id).comp
                               THEN after[k] = NodeOf(St', id).comp
                               ELSE after[k] = before[k]]_vars

\* C17: when currentHistoryIndex is a position of history, the snapshot at
\* that position is the current nodes and edges.
C17_CurrentSnapshot ==
    HasSnapshot(St, currentHistoryIndex)
        => /\ HistoryAt(St, currentHistoryIndex) = Snapshot(nodes, edges)
           /\ DeepSnapshot(heap, HistoryAt(St, currentHistoryIndex)) = Graph(St)

\* a redo has moved to a later snapshot that differs from the one before it
C17_Witness ==
    /\ lastOp = "redo"
    /\ currentHistoryIndex >= 1
    /\ HasSnapshot(St, currentHistoryIndex)
    /\ HistoryAt(St, currentHistoryIndex) # HistoryAt(St, currentHistoryIndex - 1)
    /\ HistoryAt(St, currentHistoryIndex) = Snapshot(nodes, edges)

\* C18: resetHistory leaves history with the single snapshot of the current
\* nodes and edges and currentHistoryIndex 0, and nodes, edges and
\* selectedNodeId as they were; undo and redo right after it change nothing.
C18_ResetHistory ==
    [][lastOp' = "resetHistory"
       => /\ history' = <<Snapshot(nodes, edges)>>
          /\ currentHistoryIndex' = 0
          /\ nodes' = nodes
          /\ edges' = edges
          /\ selectedNodeId' = selectedNodeId
          /\ DeepNodes(heap', nodes') = DeepNodes(heap, nodes)
          /\ undo(St') = St'
          /\ redo(St') = St']_vars

\* resetHistory late in a run, on a graph with a selected node
C18_Witness ==
    /\ lastOp = "resetHistory"
    /\ steps >= 3
    /\ nodes # <<>>
    /\ selectedNodeId # Null
    /\ history = <<Snapshot(nodes, edges)>>
    /\ currentHistoryIndex = 0

\* every type of component addNode may be given
AnyComponent ==
    Components \cup Attachments
        \cup {Template("tool", "FunctionTool", "t"),
              Template("termination", "MaxMessageTermination", "x"),
              Template("workbench", "StaticWorkbench", "w"),
              Template("workbench", "McpWorkbench", "w")}

\* C19: addNode with a targetNodeId that is not empty and names no node changes
\* nothing, whatever type the component has.
C19_MissingTargetRejected ==
    \A c \in AnyComponent :
        LET r == addNode(St, c, MissingId(St)) IN
        /\ MissingId(St) # Null
        /\ r.thrown = "none"
        /\ Store(r) = Store(St)
        /\ r.heap = heap

\* addNode has returned on a loaded graph without recording anything
C19_Witness ==
    /\ lastOp = "addNode"
    /\ thrown = "none"
    /\ originalComponent # Null
    /\ nodes # <<>>
    /\ currentHistoryIndex = 0
    /\ Len(history) = 1

\* C20: addNode with an agent component and no target appends one agent node
\* and one agent-connection edge from the first team node to it; without a team
\* node it adds neither.
C20_AddAgent ==
    [][\A c \in AgentTemplates :
          (lastOp' = "addNode" /\ St' = addNode(St, c, Null))
          => IF TeamNodes(St) = {}
             THEN nodes' = nodes /\ edges' = edges
             ELSE LET first == CHOOSE i \in TeamNodes(St) : \A k \in TeamNodes(St) : i <= k
                      new == nodes'[Len(nodes')]
                      edge == edges'[Len(edges')]
                  IN /\ Len(nodes') = Len(nodes) + 1
                     /\ SubSeq(nodes', 1, Len(nodes)) = nodes
                     /\ isAgentComponent(heap', new.comp)
                     /\ new.id \notin NodeIds(St)
                     /\ Len(edges') = Len(edges) + 1
                     /\ SubSeq(edges', 1, Len(edges)) = edges
                     /\ edge.type = "agent-connection"
                     /\ edge.source = nodes[first].id
                     /\ edge.target = new.id]_vars

\* C21: syncToJson changes nothing of the store: nodes with every node's
\* component configuration, edges, history and currentHistoryIndex are after it
\* what they were before it.
C21_SyncToJsonReadOnly ==
    [][lastOp' = "syncToJson"
       => /\ nodes' = nodes
          /\ edges' = edges
          /\ history' = history
          /\ currentHistoryIndex' = currentHistoryIndex
          /\ Graph(St') = Graph(St)
          /\ HistoryValues(St') = HistoryValues(St)]_vars

\* C22: undo and redo leave history, selectedNodeId, originalComponent and
\* teamId as they were, and every field when there is nothing to undo
\* (currentHistoryIndex <= 0) or to redo (currentHistoryIndex >= Len(history) - 1).
C22_UndoRedoFrame ==
    [][/\ lastOp' \in {"undo", "redo"}
          => /\ history' = history
             /\ HistoryValues(St') = HistoryValues(St)
             /\ selectedNodeId' = selectedNodeId
             /\ originalComponent' = originalComponent
             /\ teamId' = teamId
       /\ (lastOp' = "undo" /\ currentHistoryIndex <= 0)
          => Store(St') = Store(St) /\ heap' = heap
       /\ (lastOp' = "redo" /\ currentHistoryIndex >= Len(history) - 1)
          => Store(St') = Store(St) /\ heap' = heap]_vars

\* an undo has moved back from a later snapshot, with a node selected
C22_Witness ==
    /\ lastOp = "undo"
    /\ thrown = "none"
    /\ selectedNodeId # Null
    /\ originalComponent # Null
    /\ currentHistoryIndex >= 0
    /\ currentHistoryIndex < Len(history) - 1
    /\ HistoryAt(St, currentHistoryIndex + 1) # HistoryAt(St, currentHistoryIndex)

====
